---- MODULE Spec2Model ----
(***************************************************************************)
(* Data-windowing pipeline of the data analysis app:                       *)
(*   region selection (as-is / manual / auto-detect)                       *)
(*   -> datetime conversion -> date-range filter,                          *)
(* run once per script rerun on st.session_state.processed_data            *)
(* (src/app.py render_sidebar, src/modules/file_handler.py).               *)
(*                                                                         *)
(* Text is modelled as a sequence of one-character strings, so that the    *)
(* string functions of the code (strip, upper, split, substring test,      *)
(* regular-expression match, float parsing) are computed, not assumed.     *)
(***************************************************************************)
EXTENDS Integers, Sequences, FiniteSets, TLC

VARIABLES
    processed_data,   \* st.session_state.processed_data, the table every run starts from
    phase,            \* "ready": a script run is about to start; "done": it has ended
    call,             \* the stages of the last run: widget values, inputs and outputs
    messages,         \* the status messages the last run displayed
    original_data,    \* st.session_state.original_data, the table as loaded
    current_filename, \* st.session_state.current_filename
    data_loaded,      \* st.session_state.data_loaded
    processing_history, \* st.session_state.processing_history
    shared,           \* original_data and processed_data are one and the same object
    event             \* the upload or button click the run handled

\* the session fields a pipeline run does not assign
session == <<original_data, current_filename, data_loaded, processing_history>>

vars == <<processed_data, phase, call, messages, session, shared, event>>

(***************************************************************************)
(* Bounds of the model.                                                    *)
(***************************************************************************)
MaxRows == 4          \* rows of a loaded table without datetime column
MaxDatedRows == 2     \* rows of a loaded table with a datetime column
MaxDay == 3           \* calendar days 1..MaxDay occur in timestamp columns
MaxSheetRows == 6     \* rows of an uploaded sheet
MaxSessionRows == 3   \* rows of a loaded csv table with a column of date texts
MaxFieldDigits == 5   \* digits of one field of a text tested against the date patterns

(***************************************************************************)
(* Python str functions.                                                   *)
(***************************************************************************)
Lower == <<"a","b","c","d","e","f","g","h","i","j","k","l","m",
           "n","o","p","q","r","s","t","u","v","w","x","y","z">>
Upper == <<"A","B","C","D","E","F","G","H","I","J","K","L","M",
           "N","O","P","Q","R","S","T","U","V","W","X","Y","Z">>
Digits == {"0","1","2","3","4","5","6","7","8","9"}
Whitespace == {" ", "\t"}

LowerChars == {Lower[i] : i \in DOMAIN Lower}
UpperChars == {Upper[i] : i \in DOMAIN Upper}

IsLowerChar(c) == c \in LowerChars
IsUpperChar(c) == c \in UpperChars

\* the upper-case letter of each lower-case letter
ToUpper == [c \in LowerChars |-> Upper[CHOOSE i \in DOMAIN Lower : Lower[i] = c]]

\* str.upper(), character by character
UpperChar(c) == IF IsLowerChar(c) THEN ToUpper[c] ELSE c

\* a variant that leaves the case as it is
keep_case(s) == s

upper(s) == [i \in DOMAIN s |-> UpperChar(s[i])]

\* str.isupper(): at least one cased character and no lower-case one
isupper(s) ==
    /\ \E i \in DOMAIN s : IsUpperChar(s[i])
    /\ \A i \in DOMAIN s : ~IsLowerChar(s[i])

\* str.strip(): drop leading and trailing whitespace
strip(s) ==
    LET keep == {i \in DOMAIN s : s[i] \notin Whitespace}
    IN  IF keep = {} THEN <<>>
        ELSE LET lo == CHOOSE i \in keep : \A j \in keep : i <= j
                 hi == CHOOSE i \in keep : \A j \in keep : j <= i
             IN  SubSeq(s, lo, hi)

\* the Python test  sub in s
contains(sub, s) ==
    \E i \in 0..(Len(s) - Len(sub)) : \A j \in 1..Len(sub) : s[i + j] = sub[j]

\* s.replace(old, "") for a one-character old
RECURSIVE remove_char(_, _)
remove_char(s, old) ==
    IF s = <<>> THEN <<>>
    ELSE IF Head(s) = old THEN remove_char(Tail(s), old)
    ELSE <<Head(s)>> \o remove_char(Tail(s), old)

\* s.split(sep) for a one-character sep: always at least one piece
RECURSIVE split_from(_, _, _, _)
split_from(s, sep, i, piece) ==
    IF i > Len(s) THEN <<piece>>
    ELSE IF s[i] = sep THEN <<piece>> \o split_from(s, sep, i + 1, <<>>)
    ELSE split_from(s, sep, i + 1, Append(piece, s[i]))

split(s, sep) == split_from(s, sep, 1, <<>>)

AllDigits(s) == \A i \in DOMAIN s : s[i] \in Digits

(***************************************************************************)
(* Cells, tables and the pandas operations the pipeline uses.              *)
(* A table keeps its row labels (index) beside its rows, as a DataFrame    *)
(* does: positional slices (iloc, Series[i:]) and label slices (loc)       *)
(* differ once a table has been sliced.                                    *)
(***************************************************************************)
NaN == [kind |-> "missing"]
Text(s) == [kind |-> "text", s |-> s]

isna(value) == value.kind = "missing"

\* str(value) of a cell
str(value) == IF value.kind = "text" THEN value.s ELSE <<"n","a","n">>

len(df) == Len(df.data)

\* df[col] for the column at position c: a Series (labels and values)
column(df, c) ==
    [index |-> df.index, values |-> [i \in DOMAIN df.data |-> df.data[i][c]]]

Min(a, b) == IF a <= b THEN a ELSE b
Max(a, b) == IF a >= b THEN a ELSE b

\* df.iloc[start:stop] for start, stop >= 0: rows at positions start..stop-1
iloc(df, start, stop) ==
    [df EXCEPT !.index = SubSeq(df.index, start + 1, Min(stop, Len(df.index))),
               !.data = SubSeq(df.data, start + 1, Min(stop, Len(df.data)))]

\* series[start:] with an integer start >= 0: positional, whatever the labels
series_from(series, start) ==
    [index |-> SubSeq(series.index, start + 1, Len(series.index)),
     values |-> SubSeq(series.values, start + 1, Len(series.values))]

\* the rows of df kept by a boolean mask, labels kept
RECURSIVE select_positions(_, _, _)
select_positions(seq, mask, i) ==
    IF i > Len(seq) THEN <<>>
    ELSE (IF mask[i] THEN <<seq[i]>> ELSE <<>>) \o select_positions(seq, mask, i + 1)

boolean_index(df, mask) ==
    [df EXCEPT !.index = select_positions(df.index, mask, 1),
               !.data = select_positions(df.data, mask, 1)]

\* df.loc[first:last] on an increasing integer index: labels first..last, both included
loc(df, first, last) ==
    boolean_index(df, [i \in DOMAIN df.index |->
                          first <= df.index[i] /\ df.index[i] <= last])

\* df.loc[first:]
loc_from(df, first) ==
    boolean_index(df, [i \in DOMAIN df.index |-> first <= df.index[i]])

(***************************************************************************)
(* Detection-method predicates (file_handler.py).                          *)
(***************************************************************************)
\* re.match of  \d{a}<sep>\d{b}<sep>\d{c}  with a \in A, b \in B, c \in C:
\* anchored at the start of the string only
re_match_date(s, A, sep, B, C) ==
    \E a \in A, b \in B, c \in C :
        /\ Len(s) >= a + b + c + 2
        /\ AllDigits(SubSeq(s, 1, a))
        /\ s[a + 1] = sep
        /\ AllDigits(SubSeq(s, a + 2, a + b + 1))
        /\ s[a + b + 2] = sep
        /\ AllDigits(SubSeq(s, a + b + 3, a + b + c + 2))

\* a variant that looks for the forms anywhere in the string (re.search)
date_pattern_searched(value_str) ==
    \E i \in DOMAIN value_str :
        \/ re_match_date(SubSeq(value_str, i, Len(value_str)), {1, 2}, "-", {1, 2}, {4})
        \/ re_match_date(SubSeq(value_str, i, Len(value_str)), {4}, "-", {1, 2}, {1, 2})
        \/ re_match_date(SubSeq(value_str, i, Len(value_str)), {1, 2}, "/", {1, 2}, {4})

is_date_pattern(value_str) ==
    \/ re_match_date(value_str, {1, 2}, "-", {1, 2}, {4})
    \/ re_match_date(value_str, {4}, "-", {1, 2}, {1, 2})
    \/ re_match_date(value_str, {1, 2}, "/", {1, 2}, {4})

\* Python float(): digitpart ::= digit (["_"] digit)*
digitpart(s) ==
    /\ s # <<>>
    /\ \A i \in DOMAIN s : s[i] \in Digits \cup {"_"}
    /\ s[1] \in Digits /\ s[Len(s)] \in Digits
    /\ \A i \in 1..(Len(s) - 1) : ~(s[i] = "_" /\ s[i + 1] = "_")

\* [digitpart] "." digitpart | digitpart ["."]
pointfloat(s) ==
    \/ digitpart(s)
    \/ \E k \in DOMAIN s :
          /\ s[k] = "."
          /\ LET l == SubSeq(s, 1, k - 1)
                 r == SubSeq(s, k + 1, Len(s))
             IN  /\ l = <<>> \/ digitpart(l)
                 /\ r = <<>> \/ digitpart(r)
                 /\ ~(l = <<>> /\ r = <<>>)

exponent(s) ==
    /\ s # <<>>
    /\ digitpart(IF s[1] \in {"+", "-"} THEN Tail(s) ELSE s)

float_parses(text) ==
    LET t == strip(text)
        u == IF t # <<>> /\ t[1] \in {"+", "-"} THEN Tail(t) ELSE t
    IN  \/ upper(u) \in {<<"I","N","F">>, <<"N","A","N">>,
                         <<"I","N","F","I","N","I","T","Y">>}
        \/ pointfloat(u)
        \/ \E k \in DOMAIN u :
              /\ u[k] \in {"e", "E"}
              /\ pointfloat(SubSeq(u, 1, k - 1))
              /\ exponent(SubSeq(u, k + 1, Len(u)))

is_numeric_pattern(value_str) == float_parses(remove_char(value_str, ","))

HeaderMaxLen == 20

header_indicators ==
    << <<"D","A","T","E">>, <<"T","Y","P","E">>, <<"N","U","M","B","E","R">>,
       <<"A","M","O","U","N","T">>,
       <<"D","E","S","C","R","I","P","T","I","O","N">>, <<"I","D">> >>

looks_like_header(value_str) ==
    /\ Len(value_str) < HeaderMaxLen
    /\ \/ isupper(value_str)
       \/ \E i \in DOMAIN header_indicators :
             contains(header_indicators[i], upper(value_str))

(***************************************************************************)
(* find_data_start_dynamic: the label of the first row that passes the     *)
(* blank test, the skip-word test and the method's test.                   *)
(***************************************************************************)
DetectionMethods ==
    {"Date patterns", "Numeric patterns", "Non-empty after empty",
     "First non-header row"}

None == [found |-> FALSE]
Found(index) == [found |-> TRUE, index |-> index]

RECURSIVE find_from(_, _, _, _)
find_from(first_col_data, skip_words, detection_method, i) ==
    IF i > Len(first_col_data.values) THEN None
    ELSE
      LET index == first_col_data.index[i]
          value == first_col_data.values[i]
          value_str == strip(str(value))
          value_upper == upper(value_str)
          next == find_from(first_col_data, skip_words, detection_method, i + 1)
      IN  IF isna(value) \/ value = Text(<<>>) \/ strip(str(value)) = <<>>
          THEN next
          ELSE IF \E w \in DOMAIN skip_words :
                      contains(skip_words[w], value_upper)
          THEN next
          ELSE IF detection_method = "Date patterns"
          THEN (IF is_date_pattern(value_str) THEN Found(index) ELSE next)
          ELSE IF detection_method = "Numeric patterns"
          THEN (IF is_numeric_pattern(value_str) THEN Found(index) ELSE next)
          ELSE IF detection_method = "Non-empty after empty"
          THEN Found(index)
          ELSE IF detection_method = "First non-header row"
          THEN (IF ~looks_like_header(value_str) THEN Found(index) ELSE next)
          ELSE next

\* a variant that takes the first row for a header row and starts at the second
find_data_start_after_header(first_col_data, skip_words, detection_method) ==
    find_from(first_col_data, skip_words, detection_method, 2)

find_data_start_dynamic(first_col_data, skip_words, detection_method) ==
    find_from(first_col_data, skip_words, detection_method, 1)

(***************************************************************************)
(* Status messages (st.success / st.info / st.warning / st.error).         *)
(***************************************************************************)
\* args are the values formatted into the text
MsgArgs(level, text, args) == [level |-> level, text |-> text, args |-> args]
Msg(level, text) == MsgArgs(level, text, <<>>)

(***************************************************************************)
(* apply_auto_detection: slice the table from the detected start row, and  *)
(* up to the row before the first blank first-column value when asked.     *)
(***************************************************************************)
\* null_mask of a Series: isnull() | (== "") | (astype(str).str.strip() == "")
null_mask(data_portion) ==
    [i \in DOMAIN data_portion.values |->
        LET v == data_portion.values[i]
        IN  isna(v) \/ v = Text(<<>>) \/ strip(str(v)) = <<>>]

\* mask.any()
any(mask) == \E i \in DOMAIN mask : mask[i]

\* mask.idxmax() of a boolean Series holding a True: the label of the first True
idxmax(series, mask) ==
    series.index[CHOOSE i \in DOMAIN mask :
                    mask[i] /\ \A j \in 1..(i - 1) : ~mask[j]]

\* a variant that returns no rows when no start row was found
detection_failed_empty(df) ==
    [df |-> iloc(df, 0, 0),
     messages |-> {Msg("warning", "Could not detect data start automatically. Using full dataset.")}]

\* lines 178-180: no start row was found
detection_failed(df) ==
    [df |-> df,
     messages |-> {Msg("warning", "Could not detect data start automatically. Using full dataset.")}]

\* lines 182-197: the rows kept once the start label is known
cut_at_first_blank(df, first_col_data, data_start_index, cut_at_empty) ==
    LET data_portion == series_from(first_col_data, data_start_index)
        mask == null_mask(data_portion)
    IN  IF cut_at_empty
        THEN (IF any(mask)
              THEN loc(df, data_start_index, idxmax(data_portion, mask) - 1)
              ELSE loc_from(df, data_start_index))
        ELSE loc_from(df, data_start_index)

apply_auto_detection(df, skip_words, detection_method, cut_at_empty) ==
    IF len(df) = 0 THEN [df |-> df, messages |-> {}]
    ELSE
      LET first_col_data == column(df, 1)
          data_start_index ==
              find_data_start_dynamic(first_col_data, skip_words, detection_method)
      IN  IF ~data_start_index.found
          THEN detection_failed(df)
          ELSE
            LET df_result == cut_at_first_blank(df, first_col_data,
                                                data_start_index.index, cut_at_empty)
            IN  [df |-> df_result,
                 messages |-> {MsgArgs("success", "Processed data: {} rows (started from row {})",
                                       <<len(df_result), data_start_index.index>>)}]

(***************************************************************************)
(* auto_detect_with_options_sidebar: the skip-word text input is split on  *)
(* commas, each word stripped and upper-cased, empty words dropped; the    *)
(* detection runs only in the run in which the Apply button was clicked.   *)
(***************************************************************************)
RECURSIVE skip_word_list(_, _)
skip_word_list(words, i) ==
    IF i > Len(words) THEN <<>>
    ELSE (IF strip(words[i]) # <<>> THEN <<upper(strip(words[i]))>> ELSE <<>>)
         \o skip_word_list(words, i + 1)

parse_skip_words(skip_words_input) == skip_word_list(split(skip_words_input, ","), 1)

auto_detect_with_options_sidebar(df, skip_words_input, detection_method, cut_at_empty, apply_clicked) ==
    IF apply_clicked
    THEN CHOOSE result_df \in
             { apply_auto_detection(df, skip_words, detection_method, cut_at_empty) :
                 skip_words \in {parse_skip_words(skip_words_input)} } : TRUE
    ELSE [df |-> df, messages |-> {Msg("info", "Click 'Apply Auto-Detection'")}]

(***************************************************************************)
(* manual_data_selection_sidebar.  The two st.number_input widgets bound   *)
(* what the user can enter: start to [0, len-1], end to [start, len-1].    *)
(* number_input gives the value a freshly rendered widget holds after the  *)
(* user entered a number: the entered number when it lies in               *)
(* [min_value, max_value]; an entry outside is not taken and the widget    *)
(* keeps its default, value.  The widget never yields a number outside     *)
(* its bounds.                                                             *)
(***************************************************************************)
number_input(min_value, max_value, value, entered) ==
    IF min_value <= entered /\ entered <= max_value THEN entered ELSE value

\* a variant whose slice stops before the end row
manual_selection_end_excluded(df, start_row, end_row) ==
    LET result_df == iloc(df, start_row, end_row)
    IN  [df |-> result_df,
         messages |-> IF len(result_df) # len(df)
                      THEN {Msg("success", "Selected rows")} ELSE {}]

manual_data_selection_sidebar(df, start_row, end_row) ==
    LET result_df == iloc(df, start_row, end_row + 1)
    IN  [df |-> result_df,
         messages |-> IF len(result_df) # len(df)
                      THEN {Msg("success", "Selected rows")} ELSE {}]

(***************************************************************************)
(* process_data_with_user_options: dispatch on the processing mode.        *)
(* w holds the values of the sidebar widgets of the run.                   *)
(***************************************************************************)
ProcessingModes ==
    {"Use all data as-is", "Manual selection", "Auto-detect data start/end"}

process_data_with_user_options(df, w) ==
    IF w.processing_mode = "Use all data as-is"
    THEN [df |-> df, messages |-> {Msg("success", "Using complete dataset")}]
    ELSE IF w.processing_mode = "Manual selection"
    THEN manual_data_selection_sidebar(df, w.start_row, w.end_row)
    ELSE auto_detect_with_options_sidebar(df, w.skip_words_input, w.detection_method,
                                          w.cut_at_empty, w.apply_clicked)

(***************************************************************************)
(* Timestamps: calendar day, second of the day, nanosecond of the second.  *)
(* A calendar date (datetime.date) is its day number.                      *)
(***************************************************************************)
SecondsPerDay == 86400

Timestamp(day, sec, nano) == [kind |-> "ts", day |-> day, sec |-> sec, nano |-> nano]
NaT == [kind |-> "missing"]

\* pd.to_datetime(date): midnight of that date
to_datetime(date) == Timestamp(date, 0, 0)

\* ts + pd.Timedelta(days=n)
add_days(ts, n) == [ts EXCEPT !.day = @ + n]

\* ts - pd.Timedelta(seconds=1)
sub_one_second(ts) ==
    IF ts.sec > 0 THEN [ts EXCEPT !.sec = @ - 1]
    ELSE [ts EXCEPT !.day = @ - 1, !.sec = SecondsPerDay - 1]

\* a <= b on timestamps
ts_le(a, b) ==
    \/ a.day < b.day
    \/ a.day = b.day /\ a.sec < b.sec
    \/ a.day = b.day /\ a.sec = b.sec /\ a.nano <= b.nano

\* element of  series >= ts  and  series <= ts : a missing value compares False
ge_scalar(v, ts) == ~isna(v) /\ ts_le(ts, v)
le_scalar(v, ts) == ~isna(v) /\ ts_le(v, ts)

\* Timestamp.date()
date_of(ts) == ts.day

\* the columns pd.api.types.is_datetime64_any_dtype accepts, by position
datetime_cols(df) == {c \in DOMAIN df.dtypes : df.dtypes[c] = "datetime64[ns]"}

\* the values of a Series that are not missing
valid_values(series) ==
    {series.values[i] : i \in {j \in DOMAIN series.values : ~isna(series.values[j])}}

\* series.min().date() and series.max().date() of a Series holding a timestamp
min_date(series) ==
    date_of(CHOOSE v \in valid_values(series) : \A u \in valid_values(series) : ts_le(v, u))
max_date(series) ==
    date_of(CHOOSE v \in valid_values(series) : \A u \in valid_values(series) : ts_le(u, v))

(***************************************************************************)
(* filter_by_date_range.  f holds the values of the filter's widgets:      *)
(* date_column, start_date, end_date (both within the column's date span)  *)
(* and skip_filter.                                                        *)
(***************************************************************************)
\* a variant without the check of the order of the two dates
date_range_unchecked(start_date, end_date) == TRUE

\* line 370
date_range_ok(start_date, end_date) == start_date <= end_date

\* a variant whose upper bound is the midnight that follows the end date
next_midnight(end_date) == add_days(to_datetime(end_date), 1)

\* lines 373-375: pd.to_datetime(end_date) + Timedelta(days=1) - Timedelta(seconds=1)
end_of_day(end_date) == sub_one_second(add_days(to_datetime(end_date), 1))

\* lines 372-393: keep the rows between the two bounds, both included
apply_date_filter(df, date_column, start_date, end_date) ==
    LET start_datetime == to_datetime(start_date)
        end_datetime == end_of_day(end_date)
        col == column(df, date_column)
        filtered_df ==
            boolean_index(df, [i \in DOMAIN col.values |->
                                  /\ ge_scalar(col.values[i], start_datetime)
                                  /\ le_scalar(col.values[i], end_datetime)])
    IN  [df |-> filtered_df,
         messages |-> IF len(filtered_df) # len(df)
                      THEN {MsgArgs("success", "Filtered: {} rows (from {})",
                                    <<len(filtered_df), len(df)>>)}
                      ELSE {Msg("info", "No filtering applied - all data included")}]

\* a variant that applies the filter although skipping was asked for
filter_ignoring_skip(df, f) ==
    IF datetime_cols(df) = {}
    THEN [df |-> df, messages |-> {Msg("info", "No datetime columns found")}]
    ELSE IF date_range_ok(f.start_date, f.end_date)
    THEN apply_date_filter(df, f.date_column, f.start_date, f.end_date)
    ELSE [df |-> df, messages |-> {Msg("error", "Start date must be before end date")}]

filter_by_date_range(df, f) ==
    IF datetime_cols(df) = {}
    THEN [df |-> df, messages |-> {Msg("info", "No datetime columns found")}]
    ELSE IF f.skip_filter
    THEN [df |-> df, messages |-> {Msg("info", "Using all data (no date filter)")}]
    ELSE IF date_range_ok(f.start_date, f.end_date)
    THEN apply_date_filter(df, f.date_column, f.start_date, f.end_date)
    ELSE [df |-> df, messages |-> {Msg("error", "Start date must be before end date")}]

(***************************************************************************)
(* convert_selected_columns_to_datetime.  A date text is parsed to the     *)
(* timestamp of its midnight; days are numbered from 2024-01-01 = day 1.   *)
(***************************************************************************)
DigitSeq == <<"0","1","2","3","4","5","6","7","8","9">>

DigitValue(c) == (CHOOSE i \in DOMAIN DigitSeq : DigitSeq[i] = c) - 1

\* int() of a text of digits
RECURSIVE int_from(_, _, _)
int_from(s, i, acc) ==
    IF i > Len(s) THEN acc ELSE int_from(s, i + 1, acc * 10 + DigitValue(s[i]))

int(s) == int_from(s, 1, 0)

is_leap(y) == (y % 4 = 0 /\ y % 100 # 0) \/ y % 400 = 0

days_in_month(y, m) ==
    IF m = 2 THEN (IF is_leap(y) THEN 29 ELSE 28)
    ELSE IF m \in {4, 6, 9, 11} THEN 30 ELSE 31

\* the days from 1970-01-01 to the date y-m-d of the Gregorian calendar (y >= 1)
days_from_civil(y, m, d) ==
    LET yy == IF m <= 2 THEN y - 1 ELSE y
        era == yy \div 400
        yoe == yy - era * 400
        mp == IF m > 2 THEN m - 3 ELSE m + 9
        doy == (153 * mp + 2) \div 5 + d - 1
        doe == yoe * 365 + yoe \div 4 - yoe \div 100 + doy
    IN  era * 146097 + doe - 719468

\* the parse of a text of the form YYYY-MM-DD, the format of every value of the
\* column; any other text does not parse
parse_date(s) ==
    IF /\ Len(s) = 10 /\ s[5] = "-" /\ s[8] = "-"
       /\ AllDigits(SubSeq(s, 1, 4) \o SubSeq(s, 6, 7) \o SubSeq(s, 9, 10))
    THEN LET y == int(SubSeq(s, 1, 4))
             m == int(SubSeq(s, 6, 7))
             d == int(SubSeq(s, 9, 10))
         IN  IF y >= 1 /\ m \in 1..12 /\ d \in 1..days_in_month(y, m)
             THEN [ok |-> TRUE,
                   value |-> Timestamp(days_from_civil(y, m, d)
                                          - days_from_civil(2023, 12, 31), 0, 0)]
             ELSE [ok |-> FALSE]
    ELSE [ok |-> FALSE]

\* what pd.to_datetime raises on a value it cannot parse when errors="raise"
ParseError == [kind |-> "raised"]

\* pd.to_datetime of one value: a timestamp stays, a missing value is NaT, a text
\* is parsed; an unparseable text is NaT with errors="coerce"
to_datetime_value(value, errors) ==
    IF value.kind = "ts" THEN value
    ELSE IF isna(value) THEN NaT
    ELSE LET parsed == parse_date(value.s)
         IN  IF parsed.ok THEN parsed.value
             ELSE IF errors = "coerce" THEN NaT ELSE ParseError

\* pd.to_datetime(df[col], errors=...): the values, or the exception
to_datetime_series(df, col, errors) ==
    LET values == [i \in DOMAIN df.data |-> to_datetime_value(df.data[i][col], errors)]
    IN  IF \E i \in DOMAIN values : values[i] = ParseError
        THEN [raised |-> TRUE]
        ELSE [raised |-> FALSE, values |-> values]

\* df[col] = values : the column is replaced in the table object, its dtype with it
set_column(df, col, values, dtype) ==
    [df EXCEPT !.data = [i \in DOMAIN df.data |-> [df.data[i] EXCEPT ![col] = values[i]]],
               !.dtypes = [df.dtypes EXCEPT ![col] = dtype]]

\* a variant of the loop body whose parse raises on a value it cannot parse
convert_column_raise(state, col) ==
    LET parsed == to_datetime_series(state.df, col, "raise")
    IN  IF parsed.raised
        THEN [state EXCEPT !.conversion_errors = @ \cup {col}]
        ELSE [state EXCEPT !.df = set_column(@, col, parsed.values, "datetime64[ns]"),
                           !.converted_successfully = @ \cup {col}]

\* lines 294-298, the body of the loop over the chosen columns
convert_column(state, col) ==
    LET parsed == to_datetime_series(state.df, col, "coerce")
    IN  IF parsed.raised
        THEN [state EXCEPT !.conversion_errors = @ \cup {col}]
        ELSE [state EXCEPT !.df = set_column(@, col, parsed.values, "datetime64[ns]"),
                           !.converted_successfully = @ \cup {col}]

\* lines 290-298: the loop, over the chosen columns in the order of their position
RECURSIVE convert_columns(_, _, _)
convert_columns(state, columns_to_convert, col) ==
    IF col > Len(state.df.columns) THEN state
    ELSE convert_columns(IF col \in columns_to_convert
                         THEN convert_column(state, col) ELSE state,
                         columns_to_convert, col + 1)

\* lines 288-309.  df is the table object passed in; the result's df is that same
\* object after the call; rerun tells that the call ended in st.rerun() and did
\* not return
convert_selected_columns_to_datetime(df, columns_to_convert, convert_clicked) ==
    IF columns_to_convert # {} /\ convert_clicked
    THEN LET done == convert_columns([df |-> df, converted_successfully |-> {},
                                      conversion_errors |-> {}],
                                     columns_to_convert, 1)
         IN  [df |-> done.df,
              rerun |-> TRUE,
              messages |->
                  (IF done.converted_successfully # {}
                   THEN {MsgArgs("success", "Converted: {}", done.converted_successfully)}
                   ELSE {})
                  \cup
                  (IF done.conversion_errors # {}
                   THEN {MsgArgs("error", "Failed: {}", done.conversion_errors)}
                   ELSE {})]
    ELSE [df |-> df, rerun |-> FALSE, messages |-> {}]

\* whether process_data_with_user_options returns the very object it was given
\* (lines 67, 117, 168, 180) or a copy of rows of it (lines 156, 193-197)
returns_input(df, w) ==
    IF w.processing_mode = "Use all data as-is" THEN TRUE
    ELSE IF w.processing_mode = "Manual selection" THEN FALSE
    ELSE \/ ~w.apply_clicked
         \/ len(df) = 0
         \/ find_data_start_dynamic(column(df, 1), parse_skip_words(w.skip_words_input),
                                    w.detection_method) = None

(***************************************************************************)
(* read_uploaded_file_basic.  An uploaded file has a name (text) and a     *)
(* content: the rows of cells a reader of its format finds in it (format   *)
(* "csv" or "excel"), or bytes no reader accepts (format "garbage", with   *)
(* the text of the exception the reader raises on them).                   *)
(***************************************************************************)
\* the Python value None of a session field or of a returned table
PyNone == [kind |-> "None"]

\* str.endswith
endswith(s, suffix) ==
    /\ Len(suffix) <= Len(s)
    /\ \A j \in 1..Len(suffix) : s[Len(s) - Len(suffix) + j] = suffix[j]

\* an exception, with the text str(e) gives
Raised(text) == [raised |-> TRUE, text |-> Text(text)]
Returned(value) == [raised |-> FALSE, value |-> value]

\* the name pandas gives the column at position c (from 1) of a header row
column_name(cell, c) ==
    IF isna(cell) THEN <<"U","n","n","a","m","e","d",":"," ", DigitSeq[c]>> ELSE cell.s

\* the dtype pandas infers for a column of text cells and missing values
inferred_dtype(rows, c) ==
    IF \A i \in DOMAIN rows : isna(rows[i][c]) THEN "float64" ELSE "object"

\* the table a reader builds from rows with the row at index header as column names
table_with_header(rows, header) ==
    LET body == SubSeq(rows, header + 2, Len(rows))
    IN  [columns |-> [c \in DOMAIN rows[header + 1] |-> column_name(rows[header + 1][c], c)],
         dtypes |-> [c \in DOMAIN rows[header + 1] |-> inferred_dtype(body, c)],
         index |-> [i \in 1..Len(body) |-> i - 1],
         data |-> body]

\* pd.read_csv(uploaded_file): the first line names the columns
read_csv(content) ==
    IF content.format = "csv"
    THEN (IF Len(content.rows) = 0 THEN Raised(<<"No columns to parse from file">>)
          ELSE Returned(table_with_header(content.rows, 0)))
    ELSE IF content.format = "excel"
    THEN Raised(<<"'utf-8' codec can't decode byte 0x50">>)
    ELSE Raised(content.error)

\* pd.read_excel(uploaded_file, header=None, nrows=nrows): the first rows, unnamed
read_excel_preview(content, nrows) ==
    IF content.format = "excel"
    THEN Returned([index |-> [i \in 1..Min(nrows, Len(content.rows)) |-> i - 1],
                   data |-> SubSeq(content.rows, 1, Min(nrows, Len(content.rows)))])
    ELSE IF content.format = "csv"
    THEN Raised(<<"Excel file format cannot be determined">>)
    ELSE Raised(content.error)

\* pd.read_excel(uploaded_file, header=header)
read_excel(content, header) ==
    IF header + 1 \in DOMAIN content.rows
    THEN Returned(table_with_header(content.rows, header))
    ELSE Raised(<<"Passed header exceeds the rows of the sheet">>)

\* preview_df.notnull().sum(axis=1): the count of non-null cells of each row
notnull_sum(preview_df) ==
    [index |-> preview_df.index,
     values |-> [i \in DOMAIN preview_df.data |->
                    Cardinality({c \in DOMAIN preview_df.data[i] :
                                    ~isna(preview_df.data[i][c])})]]

\* Series.idxmax(): the label of the first occurrence of the maximum
series_idxmax(series) ==
    IF Len(series.values) = 0
    THEN Raised(<<"attempt to get argmax of an empty sequence">>)
    ELSE Returned(series.index[
             CHOOSE i \in DOMAIN series.values :
                 /\ \A j \in DOMAIN series.values : series.values[j] <= series.values[i]
                 /\ \A j \in 1..(i - 1) : series.values[j] < series.values[i]])

\* the rows of the sheet that are inspected for the header
HeaderPreviewRows == 5

\* a variant that takes the last of the previewed rows with the maximum count
last_fullest_row(content) ==
    LET preview_df == read_excel_preview(content, HeaderPreviewRows)
    IN  IF preview_df.raised THEN preview_df
        ELSE IF Len(preview_df.value.data) = 0
        THEN Raised(<<"attempt to get argmax of an empty sequence">>)
        ELSE LET counts == notnull_sum(preview_df.value)
             IN  Returned(counts.index[
                     CHOOSE i \in DOMAIN counts.values :
                         /\ \A j \in DOMAIN counts.values : counts.values[j] <= counts.values[i]
                         /\ \A j \in (i + 1)..Len(counts.values) :
                                counts.values[j] < counts.values[i]])

\* lines 17-18
likely_header_row(content) ==
    LET preview_df == read_excel_preview(content, HeaderPreviewRows)
    IN  IF preview_df.raised THEN preview_df
        ELSE series_idxmax(notnull_sum(preview_df.value))

\* lines 13-24: the table and no error, or no table and the text of the exception
read_uploaded_file_basic(uploaded_file) ==
    LET read ==
            IF endswith(uploaded_file.name.s, <<".","c","s","v">>)
            THEN read_csv(uploaded_file.content)
            ELSE LET header == likely_header_row(uploaded_file.content)
                 IN  IF header.raised THEN header
                     ELSE read_excel(uploaded_file.content, header.value)
    IN  IF read.raised THEN [df |-> PyNone, error |-> read.text]
        ELSE [df |-> read.value, error |-> PyNone]

(***************************************************************************)
(* Inputs of the model.                                                    *)
(***************************************************************************)
\* the default of the "Words to skip" text input
DefaultSkipWords ==
    <<"s","t","a","t","e","m","e","n","t",",","a","c","c","o","u","n","t",",",
      "c","u","s","t","o","m","e","r",",","p","e","r","i","o","d",",",
      "r","e","p","o","r","t",",","o","p","e","n","i","n","g",",",
      "b","a","l","a","n","c","e",",","t","o","t","a","l",",",
      "s","u","m","m","a","r","y">>

\* what the user may type there: the default, and a list with blanks and empty words
SkipWordInputs ==
    { DefaultSkipWords, <<" ","x"," ",",",",","5",",">> }

\* first-column cells: missing, empty, whitespace-only, a header-like text with a
\* default skip word, a date, a number with a thousands separator
FirstColumnCells ==
    { NaN, Text(<<>>), Text(<<" ">>), Text(<<"T","o","t","a","l"," ","I","d">>),
      Text(<<"1","-","3","-","2","0","2","4">>), Text(<<"1",",","5">>) }

\* timestamp cells: midnight, the last whole second of the day and half a second
\* later, on each day, and the missing timestamp
TimestampCells ==
    {NaT} \cup
    { Timestamp(d, t[1], t[2]) :
        d \in 1..MaxDay,
        t \in {<<0, 0>>, <<SecondsPerDay - 1, 0>>, <<SecondsPerDay - 1, 500000000>>} }

\* pd.RangeIndex(n): the labels of a freshly loaded table
RangeIndex(n) == [i \in 1..n |-> i - 1]

\* freshly loaded tables without a datetime column, the first column drawn from cells
TextTables(cells) ==
    UNION { { [columns |-> <<"Particulars", "Amount">>,
               dtypes |-> <<"object", "object">>,
               index |-> RangeIndex(n),
               data |-> [i \in 1..n |-> <<first[i], Text(<<"7">>)>>]] :
              first \in [1..n -> cells] } : n \in 0..MaxRows }

\* manual selection does not read the cells: three kinds of first-column cell
ManualCells ==
    { NaN, Text(<<"T","o","t","a","l"," ","I","d">>), Text(<<"1",",","5">>) }

\* tables whose second column has been converted to datetime: that column varies
DatedTables ==
    UNION { { [columns |-> <<"Particulars", "Txn Date">>,
               dtypes |-> <<"object", "datetime64[ns]">>,
               index |-> RangeIndex(n),
               data |-> [i \in 1..n |-> <<Text(<<"x">>), cells[i]>>]] :
              cells \in [1..n -> TimestampCells] } : n \in 0..MaxDatedRows }

(***************************************************************************)
(* One script run of render_sidebar (app.py 186-199): the three stages run *)
(* on st.session_state.processed_data and the result is stored back.  The  *)
(* datetime multiselect is left empty, so the conversion stage returns its *)
(* input (file_handler.py 288, 309).                                       *)
(***************************************************************************)
\* a run that handles no upload and no click of Convert or Reset
NoEvent == [kind |-> "none"]

RegionDefaults ==
    [processing_mode |-> "Use all data as-is",
     entered_start |-> 0, entered_end |-> 0, start_row |-> 0, end_row |-> 0,
     skip_words_input |-> DefaultSkipWords, detection_method |-> "Date patterns",
     cut_at_empty |-> TRUE, apply_clicked |-> FALSE]

FilterDefaults ==
    [shown |-> FALSE, date_column |-> 0, start_date |-> 0, end_date |-> 0,
     skip_filter |-> FALSE]

Rerun(w, f) ==
    /\ phase = "ready"
    /\ phase' = "done"
    /\ \E selected \in {process_data_with_user_options(processed_data, w)} :
         \E filtered \in {filter_by_date_range(selected.df, f)} :
            /\ processed_data' = filtered.df
            /\ call' = [w |-> w, f |-> f, df |-> processed_data,
                        selected |-> selected.df, result |-> filtered.df,
                        aborted |-> FALSE]
            /\ messages' = selected.messages \cup filtered.messages
    /\ UNCHANGED <<session, shared, event>>

\* a run ended by an exception of a widget: nothing is stored
Aborted(w, f) ==
    /\ phase = "ready"
    /\ phase' = "done"
    /\ processed_data' = processed_data
    /\ call' = [w |-> w, f |-> f, df |-> processed_data,
                selected |-> processed_data, result |-> processed_data,
                aborted |-> TRUE]
    /\ messages' = {Msg("exception", "widget value out of bounds")}
    /\ UNCHANGED <<session, shared, event>>

RunAsIs == Rerun(RegionDefaults, FilterDefaults)

RunManual ==
    /\ len(processed_data) > 0
    /\ \E entered_start, entered_end \in (-1)..MaxRows :
         LET start_row == number_input(0, len(processed_data) - 1, 0, entered_start)
             end_row == number_input(start_row, len(processed_data) - 1,
                                     len(processed_data) - 1, entered_end)
         IN  Rerun([RegionDefaults EXCEPT !.processing_mode = "Manual selection",
                                          !.entered_start = entered_start,
                                          !.entered_end = entered_end,
                                          !.start_row = start_row,
                                          !.end_row = end_row],
                   FilterDefaults)

\* number_input(min_value=0, max_value=-1, value=0) on a table without rows raises
RunManualNoRows ==
    /\ len(processed_data) = 0
    /\ Aborted([RegionDefaults EXCEPT !.processing_mode = "Manual selection"],
               FilterDefaults)

RunAutoDetectIdle ==
    Rerun([RegionDefaults EXCEPT !.processing_mode = "Auto-detect data start/end"],
          FilterDefaults)

RunAutoDetectApply ==
    \E skip_words_input \in SkipWordInputs, detection_method \in DetectionMethods,
       cut_at_empty \in BOOLEAN :
        Rerun([RegionDefaults EXCEPT !.processing_mode = "Auto-detect data start/end",
                                     !.skip_words_input = skip_words_input,
                                     !.detection_method = detection_method,
                                     !.cut_at_empty = cut_at_empty,
                                     !.apply_clicked = TRUE],
              FilterDefaults)

\* the date widgets offer the dates between the column's first and last date
RunDateFilter ==
    \E date_column \in datetime_cols(processed_data) :
        LET col == column(processed_data, date_column)
        IN  /\ valid_values(col) # {}
            /\ \E start_date, end_date \in min_date(col)..max_date(col),
                  skip_filter \in BOOLEAN :
                 Rerun(RegionDefaults,
                       [shown |-> TRUE, date_column |-> date_column,
                        start_date |-> start_date, end_date |-> end_date,
                        skip_filter |-> skip_filter])

\* a datetime column without any timestamp has min() = max() = NaT: the date
\* widgets cannot be built and the run ends with their exception
RunDateFilterNoDates ==
    \E date_column \in datetime_cols(processed_data) :
        /\ valid_values(column(processed_data, date_column)) = {}
        /\ Aborted(RegionDefaults,
                   [FilterDefaults EXCEPT !.shown = TRUE, !.date_column = date_column])

\* before a run has executed its stages nothing is recorded or displayed
NoCall(df) ==
    [w |-> RegionDefaults, f |-> FilterDefaults, df |-> df,
     selected |-> df, result |-> df, aborted |-> FALSE]

\* a widget interaction starts the next script run: the previous run's output is
\* discarded, the session's processed_data is kept
NewRun ==
    /\ phase = "done"
    /\ phase' = "ready"
    /\ call' = NoCall(processed_data)
    /\ messages' = {}
    /\ event' = NoEvent
    /\ UNCHANGED <<processed_data, session, shared>>

\* the session after the file has been loaded (app.py 167-171): both tables hold
\* the loaded rows
Loaded(filename) ==
    /\ original_data = processed_data
    /\ current_filename = filename
    /\ data_loaded = TRUE
    /\ processing_history = <<>>
    /\ shared = FALSE
    /\ event = NoEvent

\* runs in Manual selection mode on freshly loaded tables without datetime columns
InitManual ==
    /\ processed_data \in TextTables(ManualCells)
    /\ phase = "ready"
    /\ call = NoCall(processed_data)
    /\ messages = {}
    /\ Loaded("statement.xlsx")

NextManual ==
    \/ RunManual
    \/ RunManualNoRows
    \/ NewRun

SpecManual == InitManual /\ [][NextManual]_vars

\* runs in as-is and Auto-detect mode on freshly loaded tables without datetime
\* columns
InitAuto ==
    /\ processed_data \in TextTables(FirstColumnCells)
    /\ phase = "ready"
    /\ call = NoCall(processed_data)
    /\ messages = {}
    /\ Loaded("statement.xlsx")

NextAuto ==
    \/ RunAsIs
    \/ RunAutoDetectIdle
    \/ RunAutoDetectApply
    \/ NewRun

SpecAuto == InitAuto /\ [][NextAuto]_vars

\* date filtering of tables with a datetime column, processing mode left at its default
InitFilter ==
    /\ processed_data \in DatedTables
    /\ phase = "ready"
    /\ call = NoCall(processed_data)
    /\ messages = {}
    /\ Loaded("statement.xlsx")

NextFilter ==
    \/ RunDateFilter
    \/ RunDateFilterNoDates
    \/ NewRun

SpecFilter == InitFilter /\ [][NextFilter]_vars

(***************************************************************************)
(* The session (app.py 61-90, 146-173): the five fields of                 *)
(* st.session_state, read and written by each script run.                  *)
(***************************************************************************)
\* the fields as one record
SessionState ==
    [original_data |-> original_data, processed_data |-> processed_data,
     current_filename |-> current_filename, data_loaded |-> data_loaded,
     processing_history |-> processing_history, shared |-> shared]

\* initialize_session_state (app.py 65-77)
InitSession ==
    /\ original_data = PyNone
    /\ processed_data = PyNone
    /\ current_filename = PyNone
    /\ data_loaded = FALSE
    /\ processing_history = <<>>
    /\ shared = FALSE

\* the truth value of a returned error: None and the empty text are false
truthy(error) == error # PyNone /\ error.s # <<>>

\* a variant that records the file before its content has been read
load_records_name_first(state, uploaded_file) ==
    LET read == read_uploaded_file_basic(uploaded_file)
        named == [state EXCEPT !.current_filename = uploaded_file.name,
                               !.data_loaded = TRUE]
    IN  IF truthy(read.error)
        THEN [state |-> named, outcome |-> "error",
              messages |-> {MsgArgs("error", "Error: {}", <<read.error>>)}]
        ELSE IF read.df = PyNone
        THEN [state |-> named, outcome |-> "exception",
              messages |-> {Msg("exception", "'NoneType' object has no attribute 'copy'")}]
        ELSE [state |-> [named EXCEPT !.original_data = read.df,
                                      !.processed_data = read.df,
                                      !.shared = FALSE,
                                      !.processing_history = <<>>],
              outcome |-> "loaded",
              messages |-> {MsgArgs("success", "File '{}' loaded successfully!",
                                    <<uploaded_file.name>>)}]

\* app.py 160-173: read the file; on an error show it and end the run; otherwise
\* store a copy of the table in original_data and another one in processed_data
load_uploaded_file(state, uploaded_file) ==
    LET read == read_uploaded_file_basic(uploaded_file)
    IN  IF truthy(read.error)
        THEN [state |-> state, outcome |-> "error",
              messages |-> {MsgArgs("error", "Error: {}", <<read.error>>)}]
        ELSE IF read.df = PyNone
        THEN [state |-> state, outcome |-> "exception",
              messages |-> {Msg("exception", "'NoneType' object has no attribute 'copy'")}]
        ELSE [state |-> [state EXCEPT !.original_data = read.df,
                                      !.processed_data = read.df,
                                      !.shared = FALSE,
                                      !.current_filename = uploaded_file.name,
                                      !.data_loaded = TRUE,
                                      !.processing_history = <<>>],
              outcome |-> "loaded",
              messages |-> {MsgArgs("success", "File '{}' loaded successfully!",
                                    <<uploaded_file.name>>)}]

\* a variant that hands out the original table itself
reset_without_copy(state) ==
    IF state.original_data # PyNone
    THEN [state |-> [state EXCEPT !.processed_data = state.original_data,
                                  !.shared = TRUE,
                                  !.processing_history = <<>>],
          messages |-> {Msg("success", "Data reset to original state")}]
    ELSE [state |-> state, messages |-> {}]

\* SessionManager.reset_data (app.py 79-85)
reset_data(state) ==
    IF state.original_data # PyNone
    THEN [state |-> [state EXCEPT !.processed_data = state.original_data,
                                  !.shared = FALSE,
                                  !.processing_history = <<>>],
          messages |-> {Msg("success", "Data reset to original state")}]
    ELSE [state |-> state, messages |-> {}]

\* the session fields take the values of the record
Store(state) ==
    /\ original_data' = state.original_data
    /\ processed_data' = state.processed_data
    /\ current_filename' = state.current_filename
    /\ data_loaded' = state.data_loaded
    /\ processing_history' = state.processing_history
    /\ shared' = state.shared

\* app.py 158: the uploaded file is read when no file is loaded or its name is new
needs_load(uploaded_file) ==
    ~data_loaded \/ uploaded_file.name # current_filename

\* uploads: sheets of up to MaxSheetRows rows of two cells, short csv files, files
\* no reader accepts, and files whose name does not tell their format
SheetRowKinds ==
    { <<NaN, NaN>>, <<Text(<<"a">>), NaN>>, <<Text(<<"a">>), Text(<<"b">>)>> }

Sheets ==
    UNION { { [format |-> "excel", rows |-> rows] : rows \in [1..n -> SheetRowKinds] } :
            n \in 0..MaxSheetRows }

CsvFiles ==
    { [format |-> "csv", rows |-> rows] :
        rows \in { <<>>, << <<Text(<<"a">>), Text(<<"b">>)>> >>,
                   << <<Text(<<"a">>), Text(<<"b">>)>>, <<Text(<<"1">>), NaN>> >> } }

Garbage ==
    { [format |-> "garbage", error |-> error] :
        error \in { <<>>, <<"File is not a zip file">> } }

SheetName == Text(<<"s",".","x","l","s","x">>)
CsvName == Text(<<"t",".","c","s","v">>)

UploadedFiles ==
    { [name |-> SheetName, content |-> content] : content \in Sheets \cup Garbage }
    \cup
    { [name |-> CsvName, content |-> content] :
        content \in CsvFiles \cup Garbage \cup
                    { [format |-> "excel", rows |-> << <<Text(<<"a">>), NaN>> >>] } }

\* a run that reads the uploaded file: the session before, the file, what the read
\* returned and how the load ended
LoadEvent(uploaded_file, loaded) ==
    [kind |-> "load", uploaded_file |-> uploaded_file, before |-> SessionState,
     read |-> read_uploaded_file_basic(uploaded_file), outcome |-> loaded.outcome]

\* a run with a new file that is read and stored; the run goes on with the pipeline
\* (app.py 176-199), the widgets at their defaults
LoadSucceeds ==
    /\ phase = "ready"
    /\ \E uploaded_file \in UploadedFiles :
         /\ needs_load(uploaded_file)
         /\ \E loaded \in {load_uploaded_file(SessionState, uploaded_file)} :
              /\ loaded.outcome = "loaded"
              /\ \E selected \in {process_data_with_user_options(
                                      loaded.state.processed_data, RegionDefaults)} :
                   \E filtered \in {filter_by_date_range(selected.df, FilterDefaults)} :
                      /\ Store([loaded.state EXCEPT !.processed_data = filtered.df])
                      /\ call' = [w |-> RegionDefaults, f |-> FilterDefaults,
                                  df |-> loaded.state.processed_data,
                                  selected |-> selected.df, result |-> filtered.df,
                                  aborted |-> FALSE]
                      /\ messages' = loaded.messages \cup selected.messages
                                        \cup filtered.messages
              /\ event' = LoadEvent(uploaded_file, loaded)
    /\ phase' = "done"

\* a run with a new file whose read fails: the run ends at app.py 164, or with the
\* exception of line 167 when the error text is empty
LoadFails ==
    /\ phase = "ready"
    /\ \E uploaded_file \in UploadedFiles :
         /\ needs_load(uploaded_file)
         /\ \E loaded \in {load_uploaded_file(SessionState, uploaded_file)} :
              /\ loaded.outcome # "loaded"
              /\ Store(loaded.state)
              /\ call' = [NoCall(processed_data) EXCEPT !.aborted = TRUE]
              /\ messages' = loaded.messages
              /\ event' = LoadEvent(uploaded_file, loaded)
    /\ phase' = "done"

\* a run without an uploaded file (app.py 152-155)
NoFile ==
    /\ phase = "ready"
    /\ \E reset \in {reset_data(SessionState)} :
         /\ Store(reset.state)
         /\ messages' = {Msg("info", "Upload a file to get started")} \cup reset.messages
    /\ call' = [NoCall(processed_data) EXCEPT !.aborted = TRUE]
    /\ event' = [kind |-> "no file", before |-> SessionState]
    /\ phase' = "done"

\* the next interaction after a run: as NewRun, for a session that may hold no table
NextInteraction ==
    /\ phase = "done"
    /\ phase' = "ready"
    /\ call' = NoCall(processed_data)
    /\ messages' = {}
    /\ event' = NoEvent
    /\ UNCHANGED <<processed_data, session, shared>>

InitLoad ==
    /\ InitSession
    /\ phase = "ready"
    /\ call = NoCall(processed_data)
    /\ messages = {}
    /\ event = NoEvent

NextLoad ==
    \/ LoadSucceeds
    \/ LoadFails
    \/ NoFile
    \/ NextInteraction

SpecLoad == InitLoad /\ [][NextLoad]_vars

(***************************************************************************)
(* A script run with a loaded file (app.py 176-227): the three stages,     *)
(* the store of line 199 and the Reset button, on the values the widgets   *)
(* hold.  st.rerun() ends the run at once and starts another one, in which *)
(* the buttons are released and the other widgets hold their values.       *)
(***************************************************************************)
\* st.date_input(value, min_value, max_value): as number_input
date_input(min_value, max_value, value, entered) ==
    IF min_value <= entered /\ entered <= max_value THEN entered ELSE value

\* the values of the region widgets in a run on df, given what the user entered
region_widgets(df, w) ==
    IF w.processing_mode = "Manual selection"
    THEN LET start_row == number_input(0, len(df) - 1, 0, w.entered_start)
         IN  [w EXCEPT !.start_row = start_row,
                       !.end_row = number_input(start_row, len(df) - 1, len(df) - 1,
                                                w.entered_end)]
    ELSE w

\* the selectbox offers the datetime columns, the first one by default
selected_date_column(df, f) ==
    IF f.date_column \in datetime_cols(df) THEN f.date_column
    ELSE CHOOSE c \in datetime_cols(df) : \A d \in datetime_cols(df) : c <= d

\* the values of the filter widgets in a run on df, given what the user entered
filter_widgets(df, f) ==
    IF datetime_cols(df) = {} THEN [f EXCEPT !.shown = FALSE]
    ELSE LET date_column == selected_date_column(df, f)
             col == column(df, date_column)
         IN  [f EXCEPT !.shown = TRUE,
                       !.date_column = date_column,
                       !.start_date = date_input(min_date(col), max_date(col),
                                                 min_date(col), f.start_date),
                       !.end_date = date_input(min_date(col), max_date(col),
                                               max_date(col), f.end_date)]

\* a widget of the run raises: number_input on a table without rows (min_value 0
\* above max_value -1), date_input on a column without any timestamp
widget_raises(df, w) ==
    w.processing_mode = "Manual selection" /\ len(df) = 0

date_widget_raises(df, f) ==
    /\ datetime_cols(df) # {}
    /\ valid_values(column(df, selected_date_column(df, f))) = {}

\* whether filter_by_date_range returns the very object it was given (lines 323,
\* 367, 396) or a copy of rows of it (line 380)
filter_returns_input(df, f) ==
    \/ datetime_cols(df) = {}
    \/ f.skip_filter
    \/ ~date_range_ok(f.start_date, f.end_date)

\* what the user has set in the sidebar: the region widgets, the chosen columns of
\* the multiselect, the filter widgets, and the button clicked, if any
Sidebar(w, columns_to_convert, f, clicked) ==
    [w |-> w, columns_to_convert |-> columns_to_convert, f |-> f, clicked |-> clicked]

\* how a run ended ("returned", "rerun", "exception"), the session fields it left
\* and what its stages worked on
RunEnded(state, ended, w, f, selected, result, displayed) ==
    [state |-> state, ended |-> ended, w |-> w, f |-> f,
     selected |-> selected, result |-> result, messages |-> displayed]

\* app.py 199 and 225-227: the table is stored; a click of Reset then resets the
\* session and reruns.  The stored object is original_data itself only when it
\* came unchanged through every stage
run_store(state, ui, w, selected, f, filtered, same_object) ==
    LET stored == [state EXCEPT !.processed_data = filtered.df,
                                !.shared = state.shared /\ same_object]
    IN  IF ui.clicked = "reset"
        THEN RunEnded(reset_data(stored).state, "rerun", w, f, selected.df, filtered.df,
                      selected.messages \cup filtered.messages
                         \cup reset_data(stored).messages)
        ELSE RunEnded(stored, "returned", w, f, selected.df, filtered.df,
                      selected.messages \cup filtered.messages)

\* app.py 195-196: the date filter on the values its widgets hold
run_filter(state, ui, w, selected, converted, f) ==
    CHOOSE run \in
        { run_store(state, ui, w, selected, f, filtered,
                    /\ returns_input(state.processed_data, w)
                    /\ filter_returns_input(converted.df, f)) :
            filtered \in {filter_by_date_range(converted.df, f)} } : TRUE

\* app.py 191-192.  The converter assigns the columns of the object it is given
\* (file_handler.py 295): when that object is st.session_state.processed_data the
\* session sees them, and original_data too when it is the same object;
\* st.rerun() then ends the run before line 199
run_conversion(state, ui, w, selected, converted) ==
    IF converted.rerun
    THEN RunEnded(IF returns_input(state.processed_data, w)
                  THEN [state EXCEPT
                           !.processed_data = converted.df,
                           !.original_data = IF state.shared THEN converted.df ELSE @]
                  ELSE state,
                  "rerun", w, ui.f, selected.df, converted.df,
                  selected.messages \cup converted.messages)
    ELSE IF date_widget_raises(converted.df, ui.f)
    THEN RunEnded(state, "exception", w, ui.f, selected.df, converted.df,
                  selected.messages \cup {Msg("exception", "widget value out of bounds")})
    ELSE CHOOSE run \in
             { run_filter(state, ui, w, selected, converted, f) :
                 f \in {filter_widgets(converted.df, ui.f)} } : TRUE

\* app.py 187-188: region selection on st.session_state.processed_data
run_region(state, ui, w) ==
    CHOOSE run \in
        { CHOOSE r \in
              { run_conversion(state, ui, w, selected, converted) :
                  converted \in {convert_selected_columns_to_datetime(
                                     selected.df, ui.columns_to_convert,
                                     ui.clicked = "convert")} } : TRUE :
            selected \in {process_data_with_user_options(state.processed_data, w)} } : TRUE

\* app.py 186-227 on the session fields state and the sidebar ui
sidebar_run(state, ui) ==
    IF widget_raises(state.processed_data, ui.w)
    THEN RunEnded(state, "exception", ui.w, ui.f,
                  state.processed_data, state.processed_data,
                  {Msg("exception", "widget value out of bounds")})
    ELSE CHOOSE run \in
             { run_region(state, ui, w) :
                 w \in {region_widgets(state.processed_data, ui.w)} } : TRUE

\* one script run on what the sidebar holds; the event records the sidebar, the
\* session before the run and how the run ended
SidebarRun(ui, trigger) ==
    \E run \in {sidebar_run(SessionState, ui)} :
        /\ Store(run.state)
        /\ call' = [w |-> run.w, f |-> run.f, df |-> processed_data,
                    selected |-> run.selected, result |-> run.result,
                    aborted |-> run.ended = "exception"]
        /\ messages' = run.messages
        /\ event' = [kind |-> "run", ui |-> ui, trigger |-> trigger,
                     before |-> SessionState, ended |-> run.ended]
        /\ phase' = IF run.ended = "rerun" THEN "rerun" ELSE "done"

\* the date texts of a csv column, and a text that is no date
DateText(day) == Text(<<"2","0","2","4","-","0","1","-","0", DigitSeq[day + 1]>>)

DateColumnCells == { DateText(1), DateText(2), Text(<<"n","/","a">>) }

\* freshly loaded csv tables: a text column and a column of date texts
SessionTables ==
    UNION { { [columns |-> <<"Particulars", "Txn Date">>,
               dtypes |-> <<"object", "object">>,
               index |-> RangeIndex(n),
               data |-> [i \in 1..n |-> <<Text(<<"x">>), cells[i]>>]] :
              cells \in [1..n -> DateColumnCells] } : n \in 0..MaxSessionRows }

\* what the region widgets may hold: as-is, Auto-detect without a click of Apply,
\* Manual selection of all rows (the end entry above every row count falls back
\* to the last row), of all rows but the first, and of the second row
SessionRegions ==
    { RegionDefaults,
      [RegionDefaults EXCEPT !.processing_mode = "Auto-detect data start/end"] }
    \cup
    { [RegionDefaults EXCEPT !.processing_mode = "Manual selection",
                             !.entered_start = e[1], !.entered_end = e[2]] :
        e \in { <<0, MaxRows + 1>>, <<1, MaxRows + 1>>, <<1, 1>> } }

\* what the filter widgets may hold: nothing entered (the whole span of the
\* column), the second day alone, and the skip checkbox
SessionFilters ==
    { FilterDefaults,
      [FilterDefaults EXCEPT !.start_date = 2, !.end_date = 2],
      [FilterDefaults EXCEPT !.skip_filter = TRUE] }

\* a run started by a widget other than a button
PlainRun ==
    /\ phase = "ready"
    /\ \E w \in SessionRegions, f \in SessionFilters :
         SidebarRun(Sidebar(w, {}, f, "none"), "none")

\* a run started by a click of Convert Selected Columns (file_handler.py 289)
ConvertClick ==
    /\ phase = "ready"
    /\ \E w \in SessionRegions, f \in SessionFilters,
          columns_to_convert \in {{2}, {1, 2}} :
         SidebarRun(Sidebar(w, columns_to_convert, f, "convert"), "none")

\* a run started by a click of Reset Data (app.py 225)
ResetClick ==
    /\ phase = "ready"
    /\ \E w \in SessionRegions, f \in SessionFilters :
         SidebarRun(Sidebar(w, {}, f, "reset"), "none")

\* the run st.rerun() starts: the buttons are released, the widgets hold their values
TriggeredRerun ==
    /\ phase = "rerun"
    /\ SidebarRun([event.ui EXCEPT !.clicked = "none"], event.ui.clicked)

\* a further run on the same widget values, started by a widget outside the
\* pipeline (the column types checkbox, the export toggle)
RerunUnchanged ==
    /\ phase = "done"
    /\ event.kind = "run"
    /\ event.ended = "returned"
    /\ event.trigger # "unchanged"
    /\ SidebarRun(event.ui, "unchanged")

InitSessionRuns ==
    /\ processed_data \in SessionTables
    /\ phase = "ready"
    /\ call = NoCall(processed_data)
    /\ messages = {}
    /\ Loaded(CsvName)

NextSessionRuns ==
    \/ PlainRun
    \/ ConvertClick
    \/ ResetClick
    \/ TriggeredRerun
    \/ RerunUnchanged
    \/ NewRun

SpecSession == InitSessionRuns /\ [][NextSessionRuns]_vars

\* freshly loaded sheets whose second column holds dates and blank cells: pandas
\* reads it as a datetime column
SheetDateCells == { NaT, Timestamp(1, 0, 0), Timestamp(2, 0, 0) }

DatedSheetTables ==
    UNION { { [columns |-> <<"Particulars", "Txn Date">>,
               dtypes |-> <<"object", "datetime64[ns]">>,
               index |-> RangeIndex(n),
               data |-> [i \in 1..n |-> <<Text(<<"x">>), cells[i]>>]] :
              cells \in [1..n -> SheetDateCells] } : n \in 0..MaxSessionRows }

\* runs and resets on a loaded sheet with a datetime column
InitReset ==
    /\ processed_data \in DatedSheetTables
    /\ phase = "ready"
    /\ call = NoCall(processed_data)
    /\ messages = {}
    /\ Loaded(SheetName)

NextReset ==
    \/ PlainRun
    \/ ResetClick
    \/ TriggeredRerun
    \/ NewRun

SpecReset == InitReset /\ [][NextReset]_vars

\* region selection of already selected rows: Manual selection and Auto-detect
\* in turn, on tables whose first column holds numbers and blanks
SlicedCells == { NaN, Text(<<"1",",","5">>) }

InitSliced ==
    /\ processed_data \in TextTables(SlicedCells)
    /\ phase = "ready"
    /\ call = NoCall(processed_data)
    /\ messages = {}
    /\ Loaded(CsvName)

NextSliced ==
    \/ RunManual
    \/ RunManualNoRows
    \/ RunAutoDetectApply
    \/ NewRun

SpecSliced == InitSliced /\ [][NextSliced]_vars

(***************************************************************************)
(* The date-pattern test on its own: find_data_start_dynamic trims the     *)
(* text of a value (file_handler.py 213) and hands it to is_date_pattern   *)
(* (line 220).  The values are three digit fields of varying width, joined *)
(* by two separators, with text before and after.                          *)
(***************************************************************************)
\* a run of n digits
DigitRun(n) == [i \in 1..n |-> <<"2", "0", "1", "9">>[((i - 1) % 4) + 1]]

FieldSeparators == {"-", "/", "."}
TextBefore == { <<>>, <<"x">>, <<" ">> }
TextAfter == { <<>>, <<"x">>, <<"5">>, <<" ">>, <<"-", "1">> }

PatternTexts ==
    { before \o DigitRun(a) \o <<sep1>> \o DigitRun(b) \o <<sep2>> \o DigitRun(c) \o after :
        before \in TextBefore, a \in 0..MaxFieldDigits, sep1 \in FieldSeparators,
        b \in 0..(MaxFieldDigits - 2), sep2 \in FieldSeparators,
        c \in 0..MaxFieldDigits, after \in TextAfter }

\* one-row tables whose first column holds such a text
PatternTables ==
    { [columns |-> <<"Particulars", "Amount">>,
       dtypes |-> <<"object", "object">>,
       index |-> RangeIndex(1),
       data |-> << <<Text(text), Text(<<"7">>)>> >>] : text \in PatternTexts }

\* lines 213 and 220: the value's text is trimmed, then tested
TestDatePattern ==
    /\ phase = "ready"
    /\ \E value_str \in {strip(str(processed_data.data[1][1]))} :
          call' = [df |-> processed_data, value_str |-> value_str,
                   matched |-> is_date_pattern(value_str), aborted |-> FALSE]
    /\ phase' = "done"
    /\ messages' = {}
    /\ UNCHANGED <<processed_data, session, shared, event>>

InitPattern ==
    /\ processed_data \in PatternTables
    /\ phase = "ready"
    /\ call = NoCall(processed_data)
    /\ messages = {}
    /\ Loaded(CsvName)

NextPattern ==
    \/ TestDatePattern
    \/ NewRun

SpecPattern == InitPattern /\ [][NextPattern]_vars

(***************************************************************************)
(* Properties.  They are stated on the run that has just ended: call holds *)
(* the table the run started from (df), the widget values (w, f), the      *)
(* table after region selection (selected) and the table stored (result).  *)
(***************************************************************************)
RunDone == phase = "done" /\ ~call.aborted

\* the Apply Auto-Detection button was clicked in the run
DetectionRun ==
    /\ RunDone
    /\ call.w.processing_mode = "Auto-detect data start/end"
    /\ call.w.apply_clicked

FirstColumn(df, i) == df.data[i][1]

\* missing, empty or whitespace-only
IsBlank(cell) ==
    \/ cell.kind = "missing"
    \/ cell.kind = "text" /\ \A k \in DOMAIN cell.s : cell.s[k] \in Whitespace

\* the words of the comma-separated input, trimmed, without the empty ones
ConfiguredSkipWords(input) ==
    LET pieces == split(input, ",")
    IN  {strip(pieces[k]) : k \in DOMAIN pieces} \ {<<>>}

\* word occurs in text, letters compared without regard to case
ContainsIgnoringCase(word, text) ==
    \E i \in 0..(Len(text) - Len(word)) :
        \A j \in 1..Len(word) : UpperChar(text[i + j]) = UpperChar(word[j])

HasSkipWord(cell, words) ==
    /\ cell.kind = "text"
    /\ \E word \in words : ContainsIgnoringCase(word, cell.s)

MethodAccepts(method, cell) ==
    LET t == strip(cell.s)
    IN  CASE method = "Date patterns" -> is_date_pattern(t)
          [] method = "Numeric patterns" -> is_numeric_pattern(t)
          [] method = "Non-empty after empty" -> TRUE
          [] method = "First non-header row" -> ~looks_like_header(t)

\* the positions of the rows that qualify as data start, given the skip words and
\* the detection method
Candidates(df, words, method) ==
    {i \in DOMAIN df.data :
        /\ ~IsBlank(FirstColumn(df, i))
        /\ ~HasSkipWord(FirstColumn(df, i), words)
        /\ MethodAccepts(method, FirstColumn(df, i))}

\* the skip words of the run that has ended
RunSkipWords == ConfiguredSkipWords(call.w.skip_words_input)

FirstOf(S) == CHOOSE i \in S : \A j \in S : i <= j

\* the start labels the run reported in its success message
ReportedStart ==
    {m.args[2] : m \in {n \in messages : n.level = "success" /\ Len(n.args) = 2}}

DetectionFailedWarning == \E m \in messages : m.level = "warning"

\* C1: auto-detect returns the label of the first row whose first-column value is
\* non-blank, holds no skip word and satisfies the method's predicate, and reports
\* failure exactly when there is no such row.
C1_FirstQualifyingRow ==
    DetectionRun =>
        \A words \in {RunSkipWords} :
        \A cands \in {Candidates(call.df, words, call.w.detection_method)} :
        \A skip_words \in {parse_skip_words(call.w.skip_words_input)} :
        \A found \in {find_data_start_dynamic(column(call.df, 1), skip_words,
                                              call.w.detection_method)} :
            /\ cands = {} => found = None
            /\ cands # {} => found = Found(call.df.index[FirstOf(cands)])
            /\ (len(call.df) > 0 /\ cands = {})
                   => ReportedStart = {} /\ DetectionFailedWarning
            /\ cands # {} => /\ ReportedStart = {call.df.index[FirstOf(cands)]}
                             /\ ~DetectionFailedWarning

\* a date row is found behind a blank row, a skip-word row and a row that is no date
C1_Witness ==
    /\ DetectionRun
    /\ call.w.detection_method = "Date patterns"
    /\ len(call.df) = 4
    /\ IsBlank(FirstColumn(call.df, 1))
    /\ HasSkipWord(FirstColumn(call.df, 2), RunSkipWords)
    /\ FirstColumn(call.df, 3) = Text(<<"1",",","5">>)
    /\ ReportedStart = {3}

\* C2: a row whose first-column text contains a configured skip word, compared
\* without regard to case, is never the data-start row of an auto-detect run.
C2_SkipWordRowNeverStart ==
    DetectionRun =>
        \A words \in {RunSkipWords} :
        \A i \in DOMAIN call.df.data :
            HasSkipWord(FirstColumn(call.df, i), words)
                => call.df.index[i] \notin ReportedStart

\* a row that only its skip word disqualifies is passed over for a later row
C2_Witness ==
    /\ DetectionRun
    /\ call.w.detection_method = "Non-empty after empty"
    /\ len(call.df) >= 2
    /\ HasSkipWord(FirstColumn(call.df, 1), RunSkipWords)
    /\ FirstColumn(call.df, 1) = Text(<<"T","o","t","a","l"," ","I","d">>)
    /\ ReportedStart = {call.df.index[2]}

\* rows first..last (positions) of df, labels and columns kept
Rows(df, first, last) ==
    [df EXCEPT !.index = SubSeq(df.index, first, last),
               !.data = SubSeq(df.data, first, last)]

\* the positions at or after position from whose first-column value is blank
BlanksFrom(df, from) ==
    {i \in DOMAIN df.data : i >= from /\ IsBlank(FirstColumn(df, i))}

\* the region the auto-detect policy defines: from the start row to the row before
\* the first blank at or after it when cutting, to the last row otherwise
DetectedRegion(df, start, cut_at_empty) ==
    IF cut_at_empty /\ BlanksFrom(df, start) # {}
    THEN Rows(df, start, FirstOf(BlanksFrom(df, start)) - 1)
    ELSE Rows(df, start, len(df))

\* C3: when a start row s is found, the table returned is rows s..e of the input:
\* e is the row before the first blank at or after s when cutting at the first blank
\* (the last row when there is none), and the last row otherwise.
C3_RegionFromStartToBlank ==
    DetectionRun =>
        \A cands \in {Candidates(call.df, RunSkipWords, call.w.detection_method)} :
            cands # {} =>
                call.selected = DetectedRegion(call.df, FirstOf(cands), call.w.cut_at_empty)

\* the same on a table whose labels are its positions, as a freshly loaded table has
C3_OnFreshTable ==
    (DetectionRun /\ call.df.index = RangeIndex(len(call.df))) =>
        \A cands \in {Candidates(call.df, RunSkipWords, call.w.detection_method)} :
            cands # {} =>
                call.selected = DetectedRegion(call.df, FirstOf(cands), call.w.cut_at_empty)

NoErrorShown == \A m \in messages : m.level \notin {"error", "exception"}

ManualRun == phase = "done" /\ call.w.processing_mode = "Manual selection"

\* the range the user entered lies within the table, start not after end
ValidRange(start, end, rows) == 0 <= start /\ start <= end /\ end < rows

\* C5: for a manual range [s,e] with 0 <= s <= e < rows, manual selection returns
\* exactly e-s+1 rows, rows s..e of the table in their order, column labels unchanged.
C5_ManualSliceExact ==
    (ManualRun /\ ValidRange(call.w.entered_start, call.w.entered_end, len(call.df))) =>
        /\ ~call.aborted
        /\ len(call.selected) = call.w.entered_end - call.w.entered_start + 1
        /\ \A k \in 1..len(call.selected) :
              /\ call.selected.data[k] = call.df.data[call.w.entered_start + k]
              /\ call.selected.index[k] = call.df.index[call.w.entered_start + k]
        /\ call.selected.columns = call.df.columns
        /\ call.selected.dtypes = call.df.dtypes
        /\ processed_data = call.selected

\* rows 1..2 of a four-row table are selected
C5_Witness ==
    /\ ManualRun
    /\ len(call.df) = 4
    /\ call.w.entered_start = 1 /\ call.w.entered_end = 2
    /\ len(processed_data) = 2
    /\ processed_data.index = <<1, 2>>

\* C6: a manual range with end < start, or with start or end outside
\* [0, rows-1], is rejected with an error and the table is left unchanged.
C6_InvalidRangeRejected ==
    (ManualRun /\ ~ValidRange(call.w.entered_start, call.w.entered_end, len(call.df))) =>
        /\ \E m \in messages : m.level \in {"error", "exception"}
        /\ call.selected = call.df
        /\ processed_data = call.df

\* a run whose date filter widgets were shown and whose stages all executed
FilterRun == phase = "done" /\ call.f.shown /\ ~call.aborted

\* a filter run that applies the range: skipping is off and start is not after end
RangeApplied ==
    FilterRun /\ ~call.f.skip_filter /\ call.f.start_date <= call.f.end_date

\* the value of the filtered column in the row at position i of the filter's input
DateCell(i) == call.selected.data[i][call.f.date_column]

\* the labels of the rows of the filter's input whose value satisfies keep
LabelsWhere(keep(_)) ==
    {call.selected.index[i] : i \in {j \in DOMAIN call.selected.data : keep(DateCell(j))}}

Labels(df) == {df.index[i] : i \in DOMAIN df.index}

\* from 00:00:00 of the start date to the last instant of the end date
WithinDates(cell) ==
    /\ ~isna(cell)
    /\ call.f.start_date <= date_of(cell)
    /\ date_of(cell) <= call.f.end_date

\* C7: with start <= end the range filter retains exactly the rows whose value lies
\* between 00:00:00 of the start date and the last instant of the end date, so every
\* timestamp of the end date is retained, and rows with a missing value are excluded.
C7_RetainsWholeEndDate ==
    RangeApplied => Labels(call.result) = LabelsWhere(WithinDates)

\* what holds of the end date: its timestamps up to 23:59:59.000 are retained
UpToLastSecond(cell) ==
    /\ ~isna(cell)
    /\ call.f.start_date <= date_of(cell)
    /\ \/ date_of(cell) < call.f.end_date
       \/ date_of(cell) = call.f.end_date /\ (cell.sec < SecondsPerDay - 1 \/ cell.nano = 0)

C7_RetainsUpToLastSecond ==
    RangeApplied => Labels(call.result) = LabelsWhere(UpToLastSecond)

IsLastSecondOfEnd(cell) == cell = Timestamp(call.f.end_date, SecondsPerDay - 1, 0)

IsMidnightAfterEnd(cell) == cell = Timestamp(call.f.end_date + 1, 0, 0)

\* C8: a row stamped 23:59:59 on the end date is retained and a row stamped
\* 00:00:00 on the following day is removed.
C8_EndDateBoundary ==
    RangeApplied =>
        /\ LabelsWhere(IsLastSecondOfEnd) \subseteq Labels(call.result)
        /\ LabelsWhere(IsMidnightAfterEnd) \cap Labels(call.result) = {}

\* one row of each kind, filtered on one date
C8_Witness ==
    /\ RangeApplied
    /\ call.f.start_date = call.f.end_date
    /\ LabelsWhere(IsLastSecondOfEnd) # {}
    /\ LabelsWhere(IsMidnightAfterEnd) # {}
    /\ len(call.selected) = 2
    /\ len(processed_data) = 1

StartAfterEnd == FilterRun /\ ~call.f.skip_filter /\ call.f.start_date > call.f.end_date

\* C9: with skipping off and start > end the filter signals the invalid range
\* and returns the table with every row still present.
C9_InvalidRangeKeepsAllRows ==
    StartAfterEnd =>
        /\ Msg("error", "Start date must be before end date") \in messages
        /\ call.result = call.selected
        /\ processed_data = call.df

\* the range is invalid on a table of two rows that a valid range would cut
C9_Witness ==
    /\ StartAfterEnd
    /\ len(call.df) = 2
    /\ len(processed_data) = 2
    /\ \E i \in DOMAIN call.df.data : date_of(DateCell(i)) < call.f.start_date

\* C10: "use all data as-is" returns the table it was given and "skip date
\* filtering" returns the filter's input, so a run with both leaves the session's
\* table as it was, however many runs came before.
C10_BypassModesChangeNothing ==
    /\ (phase = "done" /\ call.w.processing_mode = "Use all data as-is" /\ ~call.aborted)
          => call.selected = call.df
    /\ (FilterRun /\ call.f.skip_filter) =>
          /\ call.result = call.selected
          /\ processed_data = call.df
          /\ Msg("info", "Using all data (no date filter)") \in messages

\* skipping with a range that would have removed a row
C10_Witness ==
    /\ FilterRun /\ call.f.skip_filter
    /\ call.w.processing_mode = "Use all data as-is"
    /\ call.f.start_date = call.f.end_date
    /\ len(call.df) = 2
    /\ \E i \in DOMAIN call.df.data : ~WithinDates(DateCell(i))
    /\ processed_data = call.df

\* a run that read an uploaded file has ended
LoadRun == phase = "done" /\ event.kind = "load"

\* the uploaded file is a sheet with at least one row, under a spreadsheet name
ReadableSheet(uploaded_file) ==
    /\ ~endswith(uploaded_file.name.s, <<".","c","s","v">>)
    /\ uploaded_file.content.format = "excel"
    /\ Len(uploaded_file.content.rows) > 0

NonNullCells(row) == Cardinality({c \in DOMAIN row : ~isna(row[c])})

\* the index (from 0) of the row with the most non-null cells among the first five
\* rows, the lowest such index
FullestOfFirstFive(rows) ==
    CHOOSE h \in 0..(Min(5, Len(rows)) - 1) :
        \A k \in 0..(Min(5, Len(rows)) - 1) :
            /\ NonNullCells(rows[k + 1]) <= NonNullCells(rows[h + 1])
            /\ k < h => NonNullCells(rows[k + 1]) < NonNullCells(rows[h + 1])

\* C14: for a spreadsheet the loader takes as header the row with the most non-null
\* cells among the first 5 rows, the lowest index among several such rows: that row
\* names the columns and the rows after it are the data.
C14_HeaderIsFullestOfFirstFive ==
    (LoadRun /\ ReadableSheet(event.uploaded_file)) =>
        \A rows \in {event.uploaded_file.content.rows} :
            \A h \in {FullestOfFirstFive(rows)} :
                /\ event.read.error = PyNone
                /\ event.read.df.data = SubSeq(rows, h + 2, Len(rows))
                /\ \A c \in DOMAIN rows[h + 1] :
                      ~isna(rows[h + 1][c]) => event.read.df.columns[c] = rows[h + 1][c].s
                /\ original_data = event.read.df

\* two of the first five rows tie with one cell each and the sixth row has two:
\* the first of the two is the header
C14_Witness ==
    /\ LoadRun /\ ReadableSheet(event.uploaded_file)
    /\ \E rows \in {event.uploaded_file.content.rows} :
          /\ Len(rows) = 6
          /\ [i \in 1..6 |-> NonNullCells(rows[i])] = <<0, 1, 0, 1, 0, 2>>
          /\ len(original_data) = 4
          /\ original_data.columns[1] = <<"a">>

\* no reader returns a table for the uploaded file
Unreadable(uploaded_file) ==
    \/ uploaded_file.content.format = "garbage"
    \/ Len(uploaded_file.content.rows) = 0
    \/ endswith(uploaded_file.name.s, <<".","c","s","v">>)
          /\ uploaded_file.content.format # "csv"
    \/ ~endswith(uploaded_file.name.s, <<".","c","s","v">>)
          /\ uploaded_file.content.format # "excel"

\* C15: when loading a file fails the loader returns no table and the text of the
\* error, and the session fields are what they were before the attempt.
C15_FailedLoadKeepsSession ==
    (LoadRun /\ Unreadable(event.uploaded_file)) =>
        /\ event.read.df = PyNone
        /\ event.read.error # PyNone
        /\ event.uploaded_file.content.format = "garbage"
              => event.read.error = Text(event.uploaded_file.content.error)
        /\ truthy(event.read.error)
              => messages = {MsgArgs("error", "Error: {}", <<event.read.error>>)}
        /\ SessionState = event.before

\* a file fails to load while the table of an earlier file is in the session
C15_Witness ==
    /\ LoadRun /\ Unreadable(event.uploaded_file)
    /\ truthy(event.read.error)
    /\ event.before.data_loaded
    /\ len(original_data) > 0
    /\ current_filename # event.uploaded_file.name

\* the run in which Convert Selected Columns was clicked has ended in st.rerun():
\* call.selected is the table the converter was given, call.result that table
\* object after the conversion
ConvertRun ==
    phase = "rerun" /\ event.kind = "run" /\ event.ui.clicked = "convert"

ChosenColumns == event.ui.columns_to_convert

\* a text that is a date, and the day it names
IsDateText(cell) == cell.kind = "text" /\ \E day \in 1..9 : cell = DateText(day)

DayNamed(cell) == CHOOSE day \in 1..9 : cell = DateText(day)

\* a text that is no date
Unparseable(cell) == cell.kind = "text" /\ ~IsDateText(cell)

UnparseableRows(df, c) == {i \in DOMAIN df.data : Unparseable(df.data[i][c])}

\* the column holds date texts and exactly one text that is no date
OneUnparseable(df, c) ==
    /\ Cardinality(UnparseableRows(df, c)) = 1
    /\ \A i \in DOMAIN df.data : IsDateText(df.data[i][c]) \/ Unparseable(df.data[i][c])
    /\ \E i \in DOMAIN df.data : IsDateText(df.data[i][c])

\* C11: a chosen column of N date texts and one text that is no date becomes a
\* column of N timestamps and one missing value, each in the row of its text, and
\* every chosen column is converted: none is left out with an error.
C11_OneUnparseableValueIsCoerced ==
    ConvertRun =>
        \A c \in ChosenColumns :
            OneUnparseable(call.selected, c) =>
                /\ \A i \in DOMAIN call.selected.data :
                      IF IsDateText(call.selected.data[i][c])
                      THEN call.result.data[i][c] =
                               Timestamp(DayNamed(call.selected.data[i][c]), 0, 0)
                      ELSE isna(call.result.data[i][c])
                /\ call.result.index = call.selected.index
                /\ \A d \in ChosenColumns : call.result.dtypes[d] = "datetime64[ns]"
                /\ \A m \in messages : m.level # "error"

\* both columns are chosen; the second holds two dates around a text that is no date
C11_Witness ==
    /\ ConvertRun
    /\ ChosenColumns = {1, 2}
    /\ len(call.selected) = 3
    /\ OneUnparseable(call.selected, 2)
    /\ Unparseable(call.selected.data[2][2])
    /\ isna(call.result.data[2][2])
    /\ call.result.data[3][2] = Timestamp(2, 0, 0)

\* C12: the converter does not change the table object it is given: after the
\* conversion the session table that was passed to it holds what it held before.
C12_InputTableNotMutated ==
    ConvertRun => processed_data = event.before.processed_data

\* the chosen columns in which a text failed to parse and became a missing value
ColumnsWithFailures ==
    {c \in ChosenColumns :
        \E i \in UnparseableRows(call.selected, c) : isna(call.result.data[i][c])}

\* C13: after a conversion the columns in which a value failed to parse are
\* reported as such, none of them only as converted.
C13_FailedColumnsReported ==
    ConvertRun =>
        \A c \in ColumnsWithFailures :
            /\ \E m \in messages : m.level \in {"warning", "error"} /\ c \in m.args
            /\ ~\E m \in messages : m.level = "success" /\ c \in m.args

\* the rerun that a click of a button started has ended
RerunDone(button) ==
    /\ phase = "done"
    /\ event.kind = "run"
    /\ event.trigger = button

\* C16: once the rerun that Reset Data starts has completed, the session's
\* processed table is the table as loaded and the history is empty, whatever the
\* widgets hold.
C16_ResetRestoresOriginal ==
    RerunDone("reset") =>
        /\ processed_data = original_data
        /\ processing_history = <<>>

\* C17: while the loaded file stays the same, no step changes original_data.
C17_OriginalDataNeverChanges ==
    [][(data_loaded /\ current_filename' = current_filename)
          => original_data' = original_data]_vars

\* the session table has been converted in place and then cut to its second row,
\* beside an original of three rows of texts
C17_Witness ==
    /\ phase = "done"
    /\ len(original_data) = 3
    /\ original_data.dtypes = <<"object", "object">>
    /\ original_data.index = <<0, 1, 2>>
    /\ \A i \in 1..3 : original_data.data[i][2].kind = "text"
    /\ processed_data.dtypes[2] = "datetime64[ns]"
    /\ processed_data.index = <<1>>
    /\ ~shared

\* C18: a further run on unchanged widget values leaves the session's processed
\* table as the run before left it.
C18_RerunIsIdempotent ==
    (RerunDone("unchanged") /\ event.ended = "returned") =>
        processed_data = event.before.processed_data

\* C19: in every processing mode, once the rerun that Convert Selected Columns
\* starts has completed, the chosen columns of the session's processed table are
\* timestamp columns.
C19_ConversionReachesSession ==
    RerunDone("convert") =>
        \A c \in event.ui.columns_to_convert :
            processed_data.dtypes[c] = "datetime64[ns]"

\* C20: Auto-detect that cuts at the first blank returns no row whose first-column
\* value is blank, also on a table whose labels are not its positions.
C20_NoBlankRowAfterCut ==
    (DetectionRun /\ call.w.cut_at_empty) =>
        \A cands \in {Candidates(call.df, RunSkipWords, call.w.detection_method)} :
            cands # {} =>
                \A i \in DOMAIN call.selected.data : ~IsBlank(FirstColumn(call.selected, i))

\* a filter run whose date widgets were left at their defaults: start is the
\* column's first date, end its last date, skipping is off
DateRangeUntouched ==
    /\ FilterRun /\ ~call.f.skip_filter
    /\ valid_values(column(call.selected, call.f.date_column)) # {}
    /\ call.f.start_date = min_date(column(call.selected, call.f.date_column))
    /\ call.f.end_date = max_date(column(call.selected, call.f.date_column))

HasTimestamp(cell) == ~isna(cell)

\* C21: with the date widgets at their defaults and skipping off, the range filter
\* retains every row whose value in the chosen column is not missing, and the run
\* stores a table that still has every row with a timestamp.
C21_DefaultRangeKeepsEveryTimestamp ==
    DateRangeUntouched =>
        /\ LabelsWhere(HasTimestamp) \subseteq Labels(call.result)
        /\ LabelsWhere(HasTimestamp) \subseteq Labels(processed_data)

\* what holds at the defaults: the rows lost are those of the column's last date
\* stamped after 23:59:59.000
C21_DefaultRangeKeepsUpToLastSecond ==
    DateRangeUntouched =>
        /\ Labels(call.result) = LabelsWhere(UpToLastSecond)
        /\ processed_data = call.result

\* a run that tested a trimmed text against the date patterns has ended
PatternRun == phase = "done" /\ "matched" \in DOMAIN call

\* text is three fields of digits of the given widths, joined by sep
DigitFields(text, sep, first, second, third) ==
    \E parts \in {split(text, sep)} :
        /\ Len(parts) = 3
        /\ \A k \in 1..3 : AllDigits(parts[k])
        /\ Len(parts[1]) \in first /\ Len(parts[2]) \in second /\ Len(parts[3]) \in third

\* text is, from its first to its last character, D-M-YYYY, YYYY-M-D or D/M/YYYY
IsDateForm(text) ==
    \/ DigitFields(text, "-", {1, 2}, {1, 2}, {4})
    \/ DigitFields(text, "-", {4}, {1, 2}, {1, 2})
    \/ DigitFields(text, "/", {1, 2}, {1, 2}, {4})

BeginsWithDateForm(text) == \E n \in 0..Len(text) : IsDateForm(SubSeq(text, 1, n))

\* C22: the date-pattern predicate is true exactly for the trimmed strings that
\* begin with D-M-YYYY, YYYY-M-D or D/M/YYYY (1-2 digit day and month, 4-digit
\* year): anything may follow the form, nothing may come before it.
C22_DatePatternAnchoredAtStart ==
    PatternRun => (call.matched <=> BeginsWithDateForm(call.value_str))

\* a text matched although characters follow the form
C22_Witness ==
    /\ PatternRun
    /\ call.matched
    /\ ~IsDateForm(call.value_str)
    /\ IsDateForm(SubSeq(call.value_str, 1, Len(call.value_str) - 1))
====
